---- MODULE Spec2Model ----
(***************************************************************************)
(* Model of the trifinger_cameras command line tools:                      *)
(*   scripts/calibrate_cameras.py    (intrinsic / extrinsic calibration)   *)
(*   scripts/tricamera_log_viewer.py (playback of a camera log)            *)
(* Matrices are sequences of rows; a YAML file is the sequence of          *)
(* <<key, block>> pairs that yaml.dump writes (keys sorted).               *)
(***************************************************************************)
EXTENDS Integers, Sequences, FiniteSets, TLC

VARIABLES
    \* ---- calibrate_cameras.py ----
    args,              \* argparse namespace: action and the four flags
    fs,                \* file system: path -> [exists, text]
    fs0,               \* the file system as it was when the tool was started
    pc,                \* position in main / the calibration stage
    err,               \* the exception that ended the invocation ("" = none)
    trace,             \* external effects so far: handler calls, reads, writes, output
    calibration_data,  \* the dict loaded by yaml.safe_load / camera_info
    camera_matrix,     \* decoded / calibrated camera matrix
    dist_coeffs,       \* decoded / calibrated distortion coefficients
    error,             \* reprojection error returned by handler.calibrate
    rvec, tvec,        \* board pose returned by detect_board_in_image
    converted,         \* the value returned by utils.rodrigues_to_matrix
    projection_matrix, \* the matrix being assembled
    \* ---- tricamera_log_viewer.py ----
    log,               \* log_reader.data: camera-0 timestamp of each frame set
    vpc,               \* position in the viewer's main
    interval,          \* the playback interval (ms) computed by the viewer
    printed,           \* what the viewer printed: <<frames, interval>>
    shown,             \* indices of the frame sets displayed, in display order
    waits,             \* the delay passed to each cv2.waitKey call
    keys,              \* the key each cv2.waitKey call returned
    \* ---- matrix codec, exercised on its own ----
    cpc,               \* position in the encode / decode exercise
    kind,              \* which block the matrix is encoded as
    matrix,            \* the matrix handed to the encoder
    block,             \* the Matrix Block the encoder produced
    decoded            \* the matrix config_matrix produced from the block

calibVars == <<args, fs, fs0, pc, err, trace, calibration_data,
               camera_matrix, dist_coeffs, error, rvec, tvec, converted,
               projection_matrix>>
viewerVars == <<log, vpc, interval, printed, shown, waits, keys>>
codecVars == <<cpc, kind, matrix, block, decoded>>
vars == <<calibVars, viewerVars, codecVars>>

(***************************************************************************)
(* Bounds of the model.                                                    *)
(***************************************************************************)
MaxElem == 1      \* matrix entries returned by the Board Handler: 0..MaxElem
MaxFrames == 3    \* a log holds 1..MaxFrames frame sets
MaxTick == 4      \* camera timestamps are 0..MaxTick ticks
TickUs == 1500    \* one tick of the timestamp grid, in microseconds
MaxDim == 5       \* the codec is exercised on shapes (1..MaxDim) x (1..MaxDim)

(***************************************************************************)
(* numpy: flatten, reshape, indexing.                                      *)
(***************************************************************************)
RECURSIVE FlattenFrom(_, _)
FlattenFrom(m, i) == IF i > Len(m) THEN <<>> ELSE m[i] \o FlattenFrom(m, i + 1)

\* a column-major flatten (order="F"): the plausible slip in an encoder
FlattenColumnMajor(m) ==
    [k \in 1..(Len(m) * Len(m[1])) |->
        m[((k - 1) % Len(m)) + 1][((k - 1) \div Len(m)) + 1]]

\* ndarray.flatten(): row-major
Flatten(m) == FlattenFrom(m, 1)

Shape(m) == <<Len(m), Len(m[1])>>

\* ndarray.reshape(rows, cols) raises ValueError unless the sizes agree
\* (rows and cols are the positive integers of a Matrix Block)
ReshapeOk(data, rows, cols) == Len(data) = rows * cols

Reshape(data, rows, cols) ==
    [i \in 1..rows |-> [j \in 1..cols |-> data[(i - 1) * cols + j]]]

\* config_matrix(data): np.array(data["data"]).reshape(data["rows"], data["cols"])
config_matrix(data) == Reshape(data.data, data.rows, data.cols)

config_matrix_ok(data) == ReshapeOk(data.data, data.rows, data.cols)

(***************************************************************************)
(* The encoders of the two stages: the shape written is a literal.         *)
(***************************************************************************)
EncodeCameraMatrixCols2(m) == [rows |-> 3, cols |-> 2, data |-> Flatten(m)]

EncodeCameraMatrix(m) == [rows |-> 3, cols |-> 3, data |-> Flatten(m)]

EncodeDistCoeffs(m) == [rows |-> 1, cols |-> 5, data |-> Flatten(m)]

EncodeProjectionMatrix(m) == [rows |-> 4, cols |-> 4, data |-> Flatten(m)]

(***************************************************************************)
(* Python dicts and YAML.                                                  *)
(***************************************************************************)
KeyOrder == <<"camera_matrix", "distortion_coefficients", "projection_matrix">>

EmptyDict == [k \in {} |-> 0]

DictSet(d, k, v) == [x \in (DOMAIN d) \cup {k} |-> IF x = k THEN v ELSE d[x]]

\* yaml.dump(d, default_flow_style=False): one entry per key, keys sorted
YamlDump(d) ==
    LET ks == SelectSeq(KeyOrder, LAMBDA k : k \in DOMAIN d)
    IN  [i \in 1..Len(ks) |-> <<ks[i], d[ks[i]]>>]

\* yaml.safe_load(file): the mapping the text describes
YamlLoad(text) ==
    [k \in {text[i][1] : i \in DOMAIN text} |->
        text[CHOOSE i \in DOMAIN text : text[i][1] = k][2]]

NoFile == [exists |-> FALSE, text |-> <<>>]
FileOf(text) == [exists |-> TRUE, text |-> text]

(***************************************************************************)
(* Inputs of calibrate_cameras.py.                                         *)
(***************************************************************************)
NoneArg == "<None>"     \* argparse's default for a flag that was not given
Paths == {"a.yml", "b.yml"}
PathArgs == {NoneArg, ""} \cup Paths

\* Board Handler, calibrate(): camera_matrix is 3x3, distortion_coefficients 1x5
CameraMatrices ==
    { << <<f, 0, 2>>, <<0, f, 3>>, <<0, 0, 1>> >> : f \in 1..(MaxElem + 1) }
DistVectors == { << <<d, 0, 0, 0, d + 1>> >> : d \in 0..MaxElem }
Errors == 1..(MaxElem + 1)

\* Board Handler, detect_board_in_image(): rvec in quarter turns about one
\* axis (so that sin and cos are integers), tvec a 3x1 column
Rvecs == { <<0, 0, 0>>, <<0, 0, 1>>, <<2, 0, 0>>, <<0, 3, 0>> }
Tvecs == { << <<5 + a>>, <<6>>, <<7>> >> : a \in 0..MaxElem }

IntrinsicRecord(cm, dc) ==
    DictSet(DictSet(EmptyDict, "camera_matrix", EncodeCameraMatrix(cm)),
            "distortion_coefficients", EncodeDistCoeffs(dc))

OldProjection == [rows |-> 4, cols |-> 4, data |-> [i \in 1..16 |-> 8]]

\* calibration files the tool may find on disk: records written by the
\* intrinsic stage, a record that already went through the extrinsic stage,
\* hand-edited records (reshaped, truncated data, a missing block), an
\* empty file
OldRecord ==
    DictSet(IntrinsicRecord(CHOOSE m \in CameraMatrices : m[1][1] = 1,
                            CHOOSE m \in DistVectors : m[1][1] = 0),
            "projection_matrix", OldProjection)

InputTexts ==
    LET cm0 == CHOOSE m \in CameraMatrices : m[1][1] = 1
        dc0 == CHOOSE m \in DistVectors : m[1][1] = 0
        good == IntrinsicRecord(cm0, dc0)
    IN  { YamlDump(IntrinsicRecord(cm, dc)) : cm \in CameraMatrices, dc \in DistVectors }
        \cup { YamlDump(OldRecord),
               YamlDump(DictSet(good, "distortion_coefficients",
                                [rows |-> 5, cols |-> 1, data |-> Flatten(dc0)])),
               YamlDump(DictSet(good, "camera_matrix",
                                [rows |-> 3, cols |-> 3, data |-> SubSeq(Flatten(cm0), 1, 8)])),
               YamlDump(DictSet(good, "distortion_coefficients",
                                [rows |-> 1, cols |-> 5, data |-> SubSeq(Flatten(dc0), 1, 4)])),
               YamlDump(DictSet(EmptyDict, "camera_matrix", EncodeCameraMatrix(cm0))),
               <<>> }

NoErr == [type |-> "", at |-> ""]
Raise(type, at) == [type |-> type, at |-> at]

InitIdleCalib ==
    /\ args = [action |-> "", intrinsic_calibration_filename |-> NoneArg,
               calibration_data |-> NoneArg,
               extrinsic_calibration_filename |-> NoneArg,
               image_view_filename |-> NoneArg]
    /\ fs = [p \in Paths |-> NoFile]
    /\ fs0 = fs
    /\ pc = "idle"
    /\ err = NoErr
    /\ trace = <<>>
    /\ calibration_data = EmptyDict
    /\ camera_matrix = <<>>
    /\ dist_coeffs = <<>>
    /\ error = 0
    /\ rvec = <<>>
    /\ tvec = <<>>
    /\ converted = <<>>
    /\ projection_matrix = <<>>

InitCalib ==
    /\ args \in [action : {"intrinsic_calibration", "extrinsic_calibration"},
                 intrinsic_calibration_filename : PathArgs,
                 calibration_data : {NoneArg, "", "data"},
                 extrinsic_calibration_filename : PathArgs,
                 image_view_filename : {NoneArg, "", "img.png"}]
    /\ \E a \in {NoFile} \cup {FileOf(t) : t \in InputTexts},
          b \in {NoFile, FileOf(YamlDump(OldRecord))} :
          fs = [p \in Paths |-> IF p = "a.yml" THEN a ELSE b]
    /\ fs0 = fs
    /\ pc = "start"
    /\ err = NoErr
    /\ trace = <<>>
    /\ calibration_data = EmptyDict
    /\ camera_matrix = <<>>
    /\ dist_coeffs = <<>>
    /\ error = 0
    /\ rvec = <<>>
    /\ tvec = <<>>
    /\ converted = <<>>
    /\ projection_matrix = <<>>

(***************************************************************************)
(* utils.rodrigues_to_matrix: axis-angle to rotation matrix,               *)
(* R = I + sin(t) K + (1 - cos(t)) K^2, K the cross-product matrix of the  *)
(* unit axis, t the magnitude of the vector (here in quarter turns).       *)
(***************************************************************************)
Abs(x) == IF x < 0 THEN -x ELSE x
Sgn(x) == IF x < 0 THEN -1 ELSE IF x > 0 THEN 1 ELSE 0

Identity3 == << <<1, 0, 0>>, <<0, 1, 0>>, <<0, 0, 1>> >>

MatMul3(a, b) ==
    [i \in 1..3 |-> [j \in 1..3 |->
        a[i][1] * b[1][j] + a[i][2] * b[2][j] + a[i][3] * b[3][j]]]

Skew(u) == << <<0, -u[3], u[2]>>, <<u[3], 0, -u[1]>>, <<-u[2], u[1], 0>> >>

SinQuarter(q) == CASE q % 4 = 0 -> 0 [] q % 4 = 1 -> 1 [] q % 4 = 2 -> 0 [] OTHER -> -1
CosQuarter(q) == CASE q % 4 = 0 -> 1 [] q % 4 = 1 -> 0 [] q % 4 = 2 -> -1 [] OTHER -> 0

Rotation(v) ==
    LET theta == Abs(v[1]) + Abs(v[2]) + Abs(v[3])   \* one axis is non-zero
        K == Skew(<<Sgn(v[1]), Sgn(v[2]), Sgn(v[3])>>)
        K2 == MatMul3(K, K)
    IN  IF theta = 0 THEN Identity3
        ELSE [i \in 1..3 |-> [j \in 1..3 |->
                Identity3[i][j] + SinQuarter(theta) * K[i][j]
                    + (1 - CosQuarter(theta)) * K2[i][j]]]

\* What the conversion may hand back to the caller: the 3x3 rotation matrix,
\* or a 4x4 array holding it in its top-left corner; the entries of the
\* fourth row and column are the conversion's, not the caller's.
Borders ==
    { [row |-> r, col |-> <<0, 0, 0, 1>>] : r \in [1..3 -> {0, 1}] }
    \cup { [row |-> <<0, 0, 0>>, col |-> <<9, 9, 9, 9>>],
           [row |-> <<1, 1, 1>>, col |-> <<9, 9, 9, 9>>] }

Homogeneous(R, b) ==
    [i \in 1..4 |-> [j \in 1..4 |->
        IF i <= 3 /\ j <= 3 THEN R[i][j]
        ELSE IF j = 4 THEN b.col[i] ELSE b.row[j]]]

rodrigues_to_matrix(v) ==
    {Rotation(v)} \cup {Homogeneous(Rotation(v), b) : b \in Borders}

(***************************************************************************)
(* calibrate_extrinsic_parameters, lines 86-88: the assembly.              *)
(***************************************************************************)
\* numpy raises IndexError for index 3 on an axis of size 3
AssembleOk(m) == Len(m) >= 4 /\ Len(m[1]) >= 4

\* the assembly without "projection_matrix[3, 3] = 1"
AssembleNoCorner(m, t) ==
    [i \in 1..Len(m) |-> [j \in 1..Len(m[i]) |->
        IF i <= 3 /\ j = 4 THEN t[i][1] ELSE m[i][j]]]

\* projection_matrix[0:3, 3] = tvec[:, 0]; projection_matrix[3, 3] = 1
Assemble(m, t) ==
    [i \in 1..Len(m) |-> [j \in 1..Len(m[i]) |->
        IF i <= 3 /\ j = 4 THEN t[i][1]
        ELSE IF i = 4 /\ j = 4 THEN 1
        ELSE m[i][j]]]

(***************************************************************************)
(* calibrate_cameras.py: main.                                             *)
(***************************************************************************)
Missing(x) == x \in {NoneArg, ""}      \* "not args.<flag>"

\* the extrinsic checks without the one for image_view_filename
ExtrinsicFlagsMissingNoImage(a) ==
    \/ Missing(a.intrinsic_calibration_filename)
    \/ Missing(a.extrinsic_calibration_filename)

IntrinsicFlagsMissing(a) ==
    \/ Missing(a.intrinsic_calibration_filename)
    \/ Missing(a.calibration_data)

ExtrinsicFlagsMissing(a) ==
    \/ Missing(a.intrinsic_calibration_filename)
    \/ Missing(a.extrinsic_calibration_filename)
    \/ Missing(a.image_view_filename)

Fail(type, at) == pc' = "failed" /\ err' = Raise(type, at)

locals == <<calibration_data, camera_matrix, dist_coeffs, error, rvec,
            tvec, converted, projection_matrix>>

Main ==
    /\ pc = "start"
    /\ IF args.action = "intrinsic_calibration"
       THEN IF IntrinsicFlagsMissing(args)
            THEN Fail("RuntimeError", "main")
            ELSE pc' = "intr_calibrate" /\ err' = err
       ELSE IF ExtrinsicFlagsMissing(args)
            THEN Fail("RuntimeError", "main")
            ELSE pc' = "extr_load" /\ err' = err
    /\ UNCHANGED <<args, fs, fs0, trace, locals, viewerVars, codecVars>>

(***************************************************************************)
(* calibrate_intrinsic_parameters(calibration_data, calibration_results_file) *)
(***************************************************************************)
IntrinsicNext(p) ==
    CASE p = "intr_calibrate" -> "intr_encode"
      [] p = "intr_encode" -> "intr_open"
      [] p = "intr_open" -> "intr_dump"
      [] p = "intr_dump" -> "done"

\* handler = CharucoBoardHandler(); handler.calibrate(calibration_data, visualize=False)
IntrinsicCalibrate ==
    /\ pc = "intr_calibrate"
    /\ trace' = trace \o << <<"handler", "CharucoBoardHandler">>,
                            <<"handler", "calibrate">> >>
    /\ \/ /\ \E cm \in CameraMatrices, dc \in DistVectors, e \in Errors :
                /\ camera_matrix' = cm
                /\ dist_coeffs' = dc
                /\ error' = e
          /\ pc' = IntrinsicNext(pc)
          /\ err' = err
       \/ /\ Fail("InsufficientViews", "calibrate")
          /\ UNCHANGED <<camera_matrix, dist_coeffs, error>>
    /\ UNCHANGED <<args, fs, fs0, calibration_data, rvec, tvec,
                   converted, projection_matrix, viewerVars, codecVars>>

\* lines 30-40: camera_info
IntrinsicEncode ==
    /\ pc = "intr_encode"
    /\ calibration_data' =
          DictSet(DictSet(EmptyDict, "camera_matrix", EncodeCameraMatrix(camera_matrix)),
                  "distortion_coefficients", EncodeDistCoeffs(dist_coeffs))
    /\ pc' = IntrinsicNext(pc)
    /\ UNCHANGED <<args, fs, fs0, err, trace, camera_matrix, dist_coeffs,
                   error, rvec, tvec, converted, projection_matrix,
                   viewerVars, codecVars>>

\* open(path, "w"): the file is created or truncated, or the open fails
OpenForWrite(path, next, at) ==
    \/ /\ fs' = [fs EXCEPT ![path] = FileOf(<<>>)]
       /\ trace' = Append(trace, <<"write", path>>)
       /\ pc' = next
       /\ err' = err
    \/ /\ Fail("IOError", at)
       /\ UNCHANGED <<fs, trace>>

\* yaml.dump(d, outfile): the record is written, or the write fails and the
\* file stays as open() left it
Dump(path, d, next, at) ==
    \/ /\ fs' = [fs EXCEPT ![path] = FileOf(YamlDump(d))]
       /\ pc' = next
       /\ err' = err
    \/ /\ Fail("IOError", at)
       /\ UNCHANGED fs

IntrinsicOpen ==
    /\ pc = "intr_open"
    /\ OpenForWrite(args.intrinsic_calibration_filename, IntrinsicNext(pc), "open")
    /\ UNCHANGED <<args, fs0, locals, viewerVars, codecVars>>

\* yaml.dump(camera_info, outfile); return
IntrinsicDump ==
    /\ pc = "intr_dump"
    /\ Dump(args.intrinsic_calibration_filename, calibration_data,
            IntrinsicNext(pc), "dump")
    /\ trace' = IF pc' = "done" THEN Append(trace, <<"return", "None">>) ELSE trace
    /\ UNCHANGED <<args, fs0, locals, viewerVars, codecVars>>

(***************************************************************************)
(* calibrate_extrinsic_parameters(calibration_results_file,                *)
(*     charuco_centralized_image_filename, extrinsic_calibration_filename, *)
(*     impose_cube=True)                                                   *)
(***************************************************************************)
\* the output file opened before the board is looked for
ExtrinsicNextWriteFirst(p) ==
    CASE p = "extr_load" -> "extr_decode"
      [] p = "extr_decode" -> "extr_open"
      [] p = "extr_open" -> "extr_detect"
      [] p = "extr_detect" -> "extr_convert"
      [] p = "extr_convert" -> "extr_assemble"
      [] p = "extr_assemble" -> "extr_encode"
      [] p = "extr_encode" -> "extr_dump"
      [] p = "extr_dump" -> "extr_overlay"
      [] p = "extr_overlay" -> "extr_dismiss"
      [] p = "extr_dismiss" -> "done"

\* the handler built and asked for the pose before the record is decoded
ExtrinsicNextDetectFirst(p) ==
    CASE p = "extr_load" -> "extr_detect"
      [] p = "extr_detect" -> "extr_decode"
      [] p = "extr_decode" -> "extr_convert"
      [] p = "extr_convert" -> "extr_assemble"
      [] p = "extr_assemble" -> "extr_encode"
      [] p = "extr_encode" -> "extr_open"
      [] p = "extr_open" -> "extr_dump"
      [] p = "extr_dump" -> "extr_overlay"
      [] p = "extr_overlay" -> "extr_dismiss"
      [] p = "extr_dismiss" -> "done"

\* the order of the statements of the function
ExtrinsicNext(p) ==
    CASE p = "extr_load" -> "extr_decode"
      [] p = "extr_decode" -> "extr_detect"
      [] p = "extr_detect" -> "extr_convert"
      [] p = "extr_convert" -> "extr_assemble"
      [] p = "extr_assemble" -> "extr_encode"
      [] p = "extr_encode" -> "extr_open"
      [] p = "extr_open" -> "extr_dump"
      [] p = "extr_dump" -> "extr_overlay"
      [] p = "extr_overlay" -> "extr_dismiss"
      [] p = "extr_dismiss" -> "done"

\* with open(calibration_results_file) as file: yaml.safe_load(file)
ExtrinsicLoad ==
    /\ pc = "extr_load"
    /\ LET path == args.intrinsic_calibration_filename IN
       IF fs[path].exists
       THEN /\ calibration_data' = YamlLoad(fs[path].text)
            /\ trace' = Append(trace, <<"read", path>>)
            /\ pc' = ExtrinsicNext(pc)
            /\ err' = err
       ELSE /\ Fail("FileNotFoundError", "load")
            /\ UNCHANGED <<calibration_data, trace>>
    /\ UNCHANGED <<args, fs, fs0, camera_matrix, dist_coeffs, error, rvec, tvec,
                   converted, projection_matrix, viewerVars, codecVars>>

\* the exception lines 76-77 raise on the loaded value ("" = none): an empty
\* file loads as None, a block may be absent, reshape checks the size
DecodeError(d) ==
    IF DOMAIN d = {} THEN "TypeError"
    ELSE IF "camera_matrix" \notin DOMAIN d THEN "KeyError"
    ELSE IF ~config_matrix_ok(d["camera_matrix"]) THEN "ValueError"
    ELSE IF "distortion_coefficients" \notin DOMAIN d THEN "KeyError"
    ELSE IF ~config_matrix_ok(d["distortion_coefficients"]) THEN "ValueError"
    ELSE ""

ExtrinsicDecode ==
    /\ pc = "extr_decode"
    /\ IF DecodeError(calibration_data) = ""
       THEN /\ camera_matrix' = config_matrix(calibration_data["camera_matrix"])
            /\ dist_coeffs' = config_matrix(calibration_data["distortion_coefficients"])
            /\ pc' = ExtrinsicNext(pc)
            /\ err' = err
       ELSE /\ Fail(DecodeError(calibration_data), "decode")
            /\ UNCHANGED <<camera_matrix, dist_coeffs>>
    /\ UNCHANGED <<args, fs, fs0, trace, calibration_data, error, rvec,
                   tvec, converted, projection_matrix, viewerVars, codecVars>>

\* handler = CharucoBoardHandler(camera_matrix, dist_coeffs)
\* rvec, tvec = handler.detect_board_in_image(image, visualize=False)
ExtrinsicDetect ==
    /\ pc = "extr_detect"
    /\ trace' = trace \o << <<"handler", "CharucoBoardHandler">>,
                            <<"handler", "detect_board_in_image">> >>
    /\ \/ /\ \E r \in Rvecs, t \in Tvecs : rvec' = r /\ tvec' = t
          /\ pc' = ExtrinsicNext(pc)
          /\ err' = err
       \/ /\ Fail("BoardNotDetected", "detect")
          /\ UNCHANGED <<rvec, tvec>>
    /\ UNCHANGED <<args, fs, fs0, calibration_data, camera_matrix,
                   dist_coeffs, error, converted, projection_matrix,
                   viewerVars, codecVars>>

\* projection_matrix = utils.rodrigues_to_matrix(rvec)
ExtrinsicConvert ==
    /\ pc = "extr_convert"
    /\ \E m \in rodrigues_to_matrix(rvec) :
          /\ converted' = m
          /\ projection_matrix' = m
    /\ pc' = ExtrinsicNext(pc)
    /\ UNCHANGED <<args, fs, fs0, err, trace, calibration_data,
                   camera_matrix, dist_coeffs, error, rvec, tvec,
                   viewerVars, codecVars>>

\* projection_matrix[0:3, 3] = tvec[:, 0]; projection_matrix[3, 3] = 1
ExtrinsicAssemble ==
    /\ pc = "extr_assemble"
    /\ IF AssembleOk(projection_matrix)
       THEN /\ projection_matrix' = Assemble(projection_matrix, tvec)
            /\ pc' = ExtrinsicNext(pc)
            /\ err' = err
       ELSE /\ Fail("IndexError", "assemble")
            /\ UNCHANGED projection_matrix
    /\ UNCHANGED <<args, fs, fs0, trace, calibration_data, camera_matrix,
                   dist_coeffs, error, rvec, tvec, converted, viewerVars, codecVars>>

\* the new block put into a fresh dict instead of the loaded one
AttachProjectionFresh(d, m) ==
    DictSet(EmptyDict, "projection_matrix", EncodeProjectionMatrix(m))

\* calibration_data["projection_matrix"] = dict(); ...["rows"] = 4; ...
AttachProjection(d, m) == DictSet(d, "projection_matrix", EncodeProjectionMatrix(m))

ExtrinsicEncode ==
    /\ pc = "extr_encode"
    /\ calibration_data' = AttachProjection(calibration_data, projection_matrix)
    /\ pc' = ExtrinsicNext(pc)
    /\ UNCHANGED <<args, fs, fs0, err, trace, camera_matrix, dist_coeffs,
                   error, rvec, tvec, converted, projection_matrix,
                   viewerVars, codecVars>>

ExtrinsicOpen ==
    /\ pc = "extr_open"
    /\ OpenForWrite(args.extrinsic_calibration_filename, ExtrinsicNext(pc), "open")
    /\ UNCHANGED <<args, fs0, locals, viewerVars, codecVars>>

ExtrinsicDump ==
    /\ pc = "extr_dump"
    /\ Dump(args.extrinsic_calibration_filename, calibration_data,
            ExtrinsicNext(pc), "dump")
    /\ UNCHANGED <<args, fs0, trace, locals, viewerVars, codecVars>>

\* if impose_cube (main, the only caller, passes True): cv2.imread, cv2.projectPoints, cv2.line,
\* cv2.imshow; any of them may raise
ExtrinsicOverlay ==
    /\ pc = "extr_overlay"
    /\ \/ /\ trace' = trace \o << <<"imread", args.image_view_filename>>,
                                  <<"imshow", "Imposed Cube">> >>
          /\ pc' = ExtrinsicNext(pc)
          /\ err' = err
       \/ /\ Fail("cv2.error", "overlay")
          /\ trace' = Append(trace, <<"imread", args.image_view_filename>>)
    /\ UNCHANGED <<args, fs, fs0, locals, viewerVars, codecVars>>

\* while cv2.waitKey(10) == -1: pass   (a poll that times out changes nothing)
ExtrinsicDismiss ==
    /\ pc = "extr_dismiss"
    /\ pc' = ExtrinsicNext(pc)
    /\ trace' = Append(trace, <<"return", "None">>)
    /\ UNCHANGED <<args, fs, fs0, err, locals, viewerVars, codecVars>>

NextCalib ==
    \/ Main
    \/ IntrinsicCalibrate
    \/ IntrinsicEncode
    \/ IntrinsicOpen
    \/ IntrinsicDump
    \/ ExtrinsicLoad
    \/ ExtrinsicDecode
    \/ ExtrinsicDetect
    \/ ExtrinsicConvert
    \/ ExtrinsicAssemble
    \/ ExtrinsicEncode
    \/ ExtrinsicOpen
    \/ ExtrinsicDump
    \/ ExtrinsicOverlay
    \/ ExtrinsicDismiss

(***************************************************************************)
(* tricamera_log_viewer.py: main.  Timestamps are seconds in the log; the  *)
(* model keeps them as whole ticks of TickUs microseconds.                 *)
(***************************************************************************)
KeyQ == 113        \* ord("q")
KeyEsc == 27
KeyOther == 32     \* any key that is not a quit key
NoKey == -1        \* cv2.waitKey: the delay passed without a key

\* int(): truncation towards zero (b > 0)
TruncDiv(a, b) == IF a >= 0 THEN a \div b ELSE -((-a) \div b)

\* the interval left in seconds: "convert to ms" forgotten
IntervalSeconds(lg) ==
    TruncDiv((lg[Len(lg)] - lg[1]) * TickUs, Len(lg) * 1000000)

\* lines 22-26: interval = (end_time - start_time) / len(data);
\*              interval = int(interval * 1000)
IntervalMs(lg) ==
    TruncDiv((lg[Len(lg)] - lg[1]) * TickUs, Len(lg) * 1000)

InitIdleViewer ==
    /\ log = <<>>
    /\ vpc = "idle"
    /\ interval = 0
    /\ printed = <<>>
    /\ shown = <<>>
    /\ waits = <<>>
    /\ keys = <<>>

InitViewer ==
    /\ \E n \in 1..MaxFrames : log \in [1..n -> 0..MaxTick]
    /\ vpc = "start"
    /\ interval = 0
    /\ printed = <<>>
    /\ shown = <<>>
    /\ waits = <<>>
    /\ keys = <<>>

ViewerInterval ==
    /\ vpc = "start"
    /\ interval' = IntervalMs(log)
    /\ vpc' = "report"
    /\ UNCHANGED <<log, printed, shown, waits, keys, calibVars, codecVars>>

\* print("Loaded {} frames ... {} ms ({:.1f} fps)".format(n, interval, 1000 / interval))
ViewerReport ==
    /\ vpc = "report"
    /\ IF interval = 0
       THEN vpc' = "failed" /\ printed' = printed      \* ZeroDivisionError
       ELSE vpc' = "loop" /\ printed' = <<Len(log), interval>>
    /\ UNCHANGED <<log, interval, shown, waits, keys, calibVars, codecVars>>

\* what cv2.waitKey(delay) can return: with delay <= 0 it waits for a key
WaitKeyResults(delay) ==
    {KeyQ, KeyEsc, KeyOther} \cup (IF delay > 0 THEN {NoKey} ELSE {})

\* one pass of the for loop: three imshow calls, then waitKey(interval)
ViewerShow ==
    /\ vpc = "loop"
    /\ Len(shown) < Len(log)
    /\ shown' = Append(shown, Len(shown) + 1)
    /\ waits' = Append(waits, interval)
    /\ \E k \in WaitKeyResults(interval) :
          /\ keys' = Append(keys, k)
          /\ vpc' = IF k \in {KeyQ, KeyEsc} THEN "done" ELSE "loop"
    /\ UNCHANGED <<log, interval, printed, calibVars, codecVars>>

\* the for loop is exhausted
ViewerEnd ==
    /\ vpc = "loop"
    /\ Len(shown) = Len(log)
    /\ vpc' = "done"
    /\ UNCHANGED <<log, interval, printed, shown, waits, keys, calibVars, codecVars>>

NextViewer == ViewerInterval \/ ViewerReport \/ ViewerShow \/ ViewerEnd

(***************************************************************************)
(* The matrix codec on its own: a matrix of any shape is encoded the way   *)
(* the stages encode a block, then decoded by config_matrix.               *)
(***************************************************************************)
Matrices ==
    { [i \in 1..r |-> [j \in 1..c |-> s + 10 * i + j]] :
        r \in 1..MaxDim, c \in 1..MaxDim, s \in 0..MaxElem }

EncodeAs(k, m) ==
    CASE k = "camera_matrix" -> EncodeCameraMatrix(m)
      [] k = "distortion_coefficients" -> EncodeDistCoeffs(m)
      [] k = "projection_matrix" -> EncodeProjectionMatrix(m)

InitIdleCodec ==
    /\ cpc = "idle"
    /\ kind = ""
    /\ matrix = <<>>
    /\ block = [rows |-> 0, cols |-> 0, data |-> <<>>]
    /\ decoded = <<>>

InitCodec ==
    /\ cpc = "start"
    /\ kind \in {KeyOrder[i] : i \in DOMAIN KeyOrder}
    /\ matrix \in Matrices
    /\ block = [rows |-> 0, cols |-> 0, data |-> <<>>]
    /\ decoded = <<>>

CodecEncode ==
    /\ cpc = "start"
    /\ block' = EncodeAs(kind, matrix)
    /\ cpc' = "encoded"
    /\ UNCHANGED <<kind, matrix, decoded, calibVars, viewerVars>>

CodecDecode ==
    /\ cpc = "encoded"
    /\ IF config_matrix_ok(block)
       THEN decoded' = config_matrix(block) /\ cpc' = "decoded"
       ELSE decoded' = decoded /\ cpc' = "failed"       \* ValueError
    /\ UNCHANGED <<kind, matrix, block, calibVars, viewerVars>>

NextCodec == CodecEncode \/ CodecDecode

(***************************************************************************)
(* Specifications.                                                         *)
(***************************************************************************)
Init == InitCalib /\ InitIdleViewer /\ InitIdleCodec
Next == NextCalib
Spec == Init /\ [][Next]_vars

InitViewerOnly == InitIdleCalib /\ InitViewer /\ InitIdleCodec
SpecViewer == InitViewerOnly /\ [][NextViewer]_vars

InitCodecOnly == InitIdleCalib /\ InitIdleViewer /\ InitCodec
SpecCodec == InitCodecOnly /\ [][NextCodec]_vars

(***************************************************************************)
(* Properties of calibrate_cameras.py (checked under Spec).                *)
(***************************************************************************)
IsIntrinsic == args.action = "intrinsic_calibration"
IsExtrinsic == args.action = "extrinsic_calibration"

RequiredFlags ==
    IF IsIntrinsic
    THEN {"intrinsic_calibration_filename", "calibration_data"}
    ELSE {"intrinsic_calibration_filename", "extrinsic_calibration_filename",
          "image_view_filename"}

FlagMissing == \E f \in RequiredFlags : args[f] = NoneArg

Events(k) == {i \in DOMAIN trace : trace[i][1] = k}

\* the path the running stage writes its record to
OutPath ==
    IF IsIntrinsic THEN args.intrinsic_calibration_filename
    ELSE args.extrinsic_calibration_filename

\* C1: when a flag the action requires is missing, the invocation ends in a
\* fatal RuntimeError raised by main, and nothing was attempted before it:
\* no Board Handler call, no file read, no file written.
C1_MissingFlagFatalBeforeWork ==
    (pc # "start" /\ FlagMissing) =>
        /\ pc = "failed"
        /\ err = Raise("RuntimeError", "main")
        /\ trace = <<>>
        /\ fs = fs0

C1_Witness ==
    /\ pc = "failed"
    /\ IsExtrinsic
    /\ args.intrinsic_calibration_filename \in Paths
    /\ args.extrinsic_calibration_filename \in Paths
    /\ args.image_view_filename = NoneArg

\* C2 as stated: whenever a stage ends in a failure, at whichever step, the
\* output path holds exactly what it held before the invocation.
C2_NoPartialPersistence ==
    (pc = "failed" /\ err.at # "main") => fs[OutPath] = fs0[OutPath]

\* C2 amended: the output file is first touched only after calibration /
\* loading, decoding, detection, conversion and assembly have succeeded, so
\* a failure at one of those steps (or of open() itself) leaves every file
\* as it was; a failed dump leaves the output truncated, and a failed
\* overlay comes after the record has been persisted.
C2_OutputUntouchedUntilWrite ==
    /\ (pc \in {"intr_calibrate", "intr_encode", "intr_open", "extr_load",
                "extr_decode", "extr_detect", "extr_convert", "extr_assemble",
                "extr_encode", "extr_open"}) => fs = fs0
    /\ (pc = "failed" /\ err.at \in {"calibrate", "load", "decode", "detect",
                                     "assemble", "open"}) => fs = fs0
    /\ (pc = "failed" /\ err.at = "dump") => fs[OutPath] = FileOf(<<>>)
    /\ (pc = "failed" /\ err.at = "overlay") =>
           fs[OutPath] = FileOf(YamlDump(calibration_data))

C2_Witness ==
    /\ pc = "failed"
    /\ err.at = "detect"
    /\ fs0[OutPath].exists
    /\ fs[OutPath] = fs0[OutPath]

\* the record the extrinsic stage found at the intrinsic path when it started
Loaded0 == YamlLoad(fs0[args.intrinsic_calibration_filename].text)

ExtrinsicSucceeded == IsExtrinsic /\ pc = "done"

\* C3: after a successful extrinsic stage the record at the output path
\* holds the camera_matrix and distortion_coefficients blocks exactly as
\* they were loaded, plus the projection_matrix block of the assembled
\* matrix (replacing one the loaded record may have had).
C3_IntrinsicBlocksKept ==
    ExtrinsicSucceeded =>
        LET rec == YamlLoad(fs[OutPath].text) IN
        /\ DOMAIN rec = (DOMAIN Loaded0) \cup {"projection_matrix"}
        /\ rec["camera_matrix"] = Loaded0["camera_matrix"]
        /\ rec["distortion_coefficients"] = Loaded0["distortion_coefficients"]
        /\ rec["projection_matrix"].rows = 4
        /\ rec["projection_matrix"].cols = 4
        /\ rec["projection_matrix"].data = Flatten(projection_matrix)

C3_Witness ==
    /\ ExtrinsicSucceeded
    /\ args.intrinsic_calibration_filename = args.extrinsic_calibration_filename
    /\ "projection_matrix" \in DOMAIN Loaded0
    /\ Loaded0["projection_matrix"] # YamlLoad(fs[OutPath].text)["projection_matrix"]

Assembled ==
    \/ pc \in {"extr_encode", "extr_open", "extr_dump", "extr_overlay",
               "extr_dismiss", "done"} /\ IsExtrinsic
    \/ pc = "failed" /\ err.at \in {"open", "dump", "overlay"} /\ IsExtrinsic

MatVec4(m, v) ==
    [i \in 1..4 |-> m[i][1] * v[1] + m[i][2] * v[2] + m[i][3] * v[3] + m[i][4] * v[4]]

Surfaced == {trace[i][2] : i \in Events("print") \cup Events("log") \cup Events("return")}

\* C7: when the intrinsic stage succeeds, the reprojection error returned by
\* handler.calibrate has been surfaced to the caller (returned, printed or
\* logged), and it is not part of the persisted record.
C7_ReprojectionErrorSurfaced ==
    (IsIntrinsic /\ pc = "done") =>
        /\ ToString(error) \in Surfaced
        /\ DOMAIN YamlLoad(fs[OutPath].text) = {"camera_matrix", "distortion_coefficients"}

BlockMismatch(b) == Len(b.data) # b.rows * b.cols

\* the stage has loaded a record with both blocks, at least one of them mis-sized
LoadedMismatch ==
    /\ IsExtrinsic
    /\ ~FlagMissing
    /\ \A f \in RequiredFlags : args[f] # ""
    /\ pc \notin {"start", "extr_load", "extr_decode"}
    /\ fs0[args.intrinsic_calibration_filename].exists
    /\ {"camera_matrix", "distortion_coefficients"} \subseteq DOMAIN Loaded0
    /\ \/ BlockMismatch(Loaded0["camera_matrix"])
       \/ BlockMismatch(Loaded0["distortion_coefficients"])

\* C9: when the loaded intrinsic record has a camera_matrix or
\* distortion_coefficients block with data.length # rows*cols, decoding
\* fails with a shape-mismatch error that ends the invocation: the Board
\* Handler is never invoked and no output file is written.
C9_ShapeMismatchFatal ==
    LoadedMismatch =>
        /\ pc = "failed"
        /\ err = Raise("ValueError", "decode")
        /\ Events("handler") = {}
        /\ Events("write") = {}
        /\ fs = fs0

C9_Witness ==
    /\ LoadedMismatch
    /\ pc = "failed"
    /\ ~BlockMismatch(Loaded0["camera_matrix"])
    /\ BlockMismatch(Loaded0["distortion_coefficients"])

\* the stage has written its record to the output path
Persisted ==
    \/ pc \in {"extr_overlay", "extr_dismiss", "done"}
    \/ pc = "failed" /\ err.at = "overlay"

\* C10: every Matrix Block a stage persists has data.length = rows*cols;
\* the blocks the stage itself encodes are 3x3 (camera_matrix, intrinsic
\* stage), 1x5 (distortion_coefficients, intrinsic stage) and 4x4
\* (projection_matrix, extrinsic stage).
C10_PersistedBlocksWellFormed ==
    Persisted =>
        LET text == fs[OutPath].text
            rec == YamlLoad(text)
        IN  /\ text # <<>>
            /\ \A k \in DOMAIN rec : Len(rec[k].data) = rec[k].rows * rec[k].cols
            /\ IsIntrinsic =>
                  /\ DOMAIN rec = {"camera_matrix", "distortion_coefficients"}
                  /\ Len(rec["camera_matrix"].data) = 9
                  /\ Len(rec["distortion_coefficients"].data) = 5
            /\ IsExtrinsic => Len(rec["projection_matrix"].data) = 16

C10_Witness ==
    /\ IsExtrinsic /\ pc = "done"
    /\ args.extrinsic_calibration_filename # args.intrinsic_calibration_filename
    /\ Loaded0["distortion_coefficients"].rows = 5
    /\ fs0[OutPath].exists

(***************************************************************************)
(* Properties of tricamera_log_viewer.py (checked under SpecViewer).       *)
(***************************************************************************)
QuitAt == {i \in DOMAIN keys : keys[i] \in {KeyQ, KeyEsc}}

Terminated == vpc \in {"done", "failed"}

\* C5: frame sets are displayed in log order, each once, none skipped; when
\* the viewer has ended, the displayed sequence is the prefix of the log
\* ending at the first frame set whose wait received a quit key, and all N
\* frame sets when no quit key was received.
C5_DisplaysPrefixInOrder ==
    /\ shown = [i \in 1..Len(shown) |-> i]
    /\ Len(shown) <= Len(log)
    /\ Terminated =>
          IF QuitAt # {}
          THEN \A i \in QuitAt : Len(shown) = i
          ELSE Len(shown) = Len(log)

\* first and last camera-0 timestamps of the log, in microseconds
T0 == log[1] * TickUs
TN == log[Len(log)] * TickUs

IntervalComputed == vpc \notin {"idle", "start"}

\* C6 as stated: the interval computed, reported and passed to waitKey (in
\* ms) equals (tN - t0)/N.
C6_IntervalExact ==
    IntervalComputed => interval * Len(log) * 1000 = TN - T0

\* C6 amended: the interval is (tN - t0)/N converted to milliseconds and
\* truncated towards zero to a whole number; that value is the one reported
\* and the delay of every waitKey call.
C6_IntervalTruncatedMs ==
    IntervalComputed =>
        /\ Abs(interval) * Len(log) * 1000 <= Abs(TN - T0)
        /\ Abs(TN - T0) < (Abs(interval) + 1) * Len(log) * 1000
        /\ interval # 0 => Sgn(interval) = Sgn(TN - T0)
        /\ printed # <<>> => printed = <<Len(log), interval>>
        /\ \A i \in DOMAIN waits : waits[i] = interval

C6_Witness ==
    /\ vpc = "done"
    /\ Len(waits) = Len(log)
    /\ interval > 0
    /\ printed # <<>>
    /\ interval * Len(log) * 1000 # TN - T0

(***************************************************************************)
(* Properties of the matrix codec (checked under SpecCodec).               *)
(***************************************************************************)
CodecFinished == cpc \in {"decoded", "failed"}

\* C8 as stated: for a matrix of any shape, decoding the block the stage
\* encodes it into gives back a matrix of the same shape with the same
\* elements in the same positions.
C8_RoundTripAnyShape ==
    CodecFinished => cpc = "decoded" /\ decoded = matrix

\* the shape the stage writes for each block
WrittenShape ==
    CASE kind = "camera_matrix" -> <<3, 3>>
      [] kind = "distortion_coefficients" -> <<1, 5>>
      [] kind = "projection_matrix" -> <<4, 4>>

\* C8 amended: the round trip gives back the matrix exactly when its shape
\* is the one the stage writes for that block (3x3 camera_matrix, 1x5
\* distortion_coefficients, 4x4 projection_matrix); a matrix of another
\* shape with as many elements comes back in the written shape, row-major,
\* and one with another number of elements does not decode.
C8_RoundTripWrittenShape ==
    CodecFinished =>
        /\ Shape(matrix) = WrittenShape => cpc = "decoded" /\ decoded = matrix
        /\ cpc = "decoded" =>
              /\ Shape(decoded) = WrittenShape
              /\ Flatten(decoded) = Flatten(matrix)
        /\ cpc = "failed" <=>
              Len(matrix) * Len(matrix[1]) # WrittenShape[1] * WrittenShape[2]

C8_Witness ==
    /\ cpc = "decoded"
    /\ kind = "camera_matrix"
    /\ Shape(matrix) = <<3, 3>>
    /\ decoded = matrix
    /\ matrix[1][2] # matrix[2][1]

====
